---- MODULE Spec2Model ----
(***************************************************************************)
(* A model of fahpftopss.py: the Pythagorean fuzzy value type PFS, the two *)
(* linguistic scales, fahp_weights, ftopsis, and the App handlers that     *)
(* read the input grids, compute, save and restore scenarios.              *)
(*                                                                         *)
(* Numbers.  The program computes in binary floating point.  The model     *)
(* computes in fixed point, each quantity an integer count of a stated     *)
(* unit:                                                                   *)
(*   mu, nu            1/Unit            (Unit = 10 * experts, so that the *)
(*                                        scale values, given in tenths,   *)
(*                                        and their means over the experts *)
(*                                        are exact)                       *)
(*   score, denom      1/(Unit*Unit)     (exact)                           *)
(*   g (row geometric mean)  1/Unit      (rounded down)                    *)
(*   weights           1/WScale          (rounded down)                    *)
(*   R                 1/RScale          (rounded down)                    *)
(*   V, v+, v-, D+, D- 1/(RScale*WScale) (V exact from R and w; D rounded  *)
(*                                        down)                            *)
(*   CC                1/CScale          (rounded down)                    *)
(* Every rounding is monotone.  Exceptions are modelled as a returned      *)
(* record whose field "raised" names the exception ("" when none).         *)
(***************************************************************************)
EXTENDS Integers, Sequences, FiniteSets, TLC

VARIABLES
    fahp_frames,     \* App.fahp_frames: [expert][row][col] -> shown label
    ftopsis_frames,  \* App.ftopsis_frames: [expert][row][col] -> shown label
    last_result,     \* App.last_result: None or the last completed compute
    files,           \* the scenario directory: file name -> stored record
    outcome,         \* how the last handler ended
    steps,           \* number of handler runs so far
    call,            \* a direct call of a core function: its arguments
    ret              \* ... and what it returned or raised

vars == <<fahp_frames, ftopsis_frames, last_result, files, outcome, steps, call, ret>>

appvars == <<fahp_frames, ftopsis_frames, last_result, files, outcome, steps>>

-----------------------------------------------------------------------------
(* Program constants and fixed-point units *)

\* self.experts
experts == 4

\* The program's grids are 5 x 5: range(5) in every loop over them, and the
\* five criteria and five alternatives of App.__init__.  The model takes
\* the grid size as the bound Dim and keeps every loop as written.
Dim == 3

Unit == 10 * experts

WScale == 100

RScale == 100

CScale == 10000

Tenths(k) == k * (Unit \div 10)

One == Unit * Unit

-----------------------------------------------------------------------------
(* Arithmetic helpers *)

RECURSIVE SumTo(_, _)
SumTo(f, n) == IF n = 0 THEN 0 ELSE f[n] + SumTo(f, n - 1)

Sum(f) == SumTo(f, Len(f))

RECURSIVE ProdTo(_, _)
ProdTo(f, n) == IF n = 0 THEN 1 ELSE f[n] * ProdTo(f, n - 1)

RECURSIVE Pow(_, _)
Pow(b, e) == IF e = 0 THEN 1 ELSE b * Pow(b, e - 1)

\* a Python list: the sequence f with every element evaluated once
List(f) == f \o <<>>

Max(S) == CHOOSE x \in S : \A y \in S : y <= x

Min(S) == CHOOSE x \in S : \A y \in S : x <= y

\* x ** (1.0 / n) for 0 <= x <= Unit^n, rounded down
Root(x, n) == CHOOSE r \in 0..Unit : Pow(r, n) <= x /\ Pow(r + 1, n) > x

RECURSIVE SqrtSearch(_, _, _)
SqrtSearch(x, lo, hi) ==
    IF lo = hi THEN lo
    ELSE LET mid == (lo + hi + 1) \div 2
         IN  IF mid * mid <= x THEN SqrtSearch(x, mid, hi)
             ELSE SqrtSearch(x, lo, mid - 1)

\* math.sqrt, rounded down
sqrt(x) == SqrtSearch(x, 0, 46340)

-----------------------------------------------------------------------------
(* class PFS *)

\* PFS.__post_init__ with a weaker comparison: rejects the boundary too
PFS_rejects_boundary(mu, nu) ==
    IF mu * mu + nu * nu >= One
    THEN [raised |-> "ValueError"]
    ELSE [raised |-> "", mu |-> mu, nu |-> nu]

\* PFS(mu, nu): the dataclass constructor followed by __post_init__.
\* mu**2 + nu**2 > 1 + 1e-9: the tolerance 1e-9 is far below the unit
\* 1/(Unit*Unit), so the test is mu*mu + nu*nu > One on the integer counts.
PFS(mu, nu) ==
    IF mu * mu + nu * nu > One
    THEN [raised |-> "ValueError"]
    ELSE [raised |-> "", mu |-> mu, nu |-> nu]

score(p) == p.mu * p.mu - p.nu * p.nu

AHP_SCALE ==
    [EQ  |-> <<Tenths(7), Tenths(7)>>,
     LI  |-> <<Tenths(3), Tenths(8)>>,
     MI  |-> <<Tenths(5), Tenths(7)>>,
     HI  |-> <<Tenths(7), Tenths(5)>>,
     VHI |-> <<Tenths(9), Tenths(3)>>]

TOPSIS_SCALE ==
    [VL |-> <<Tenths(1), Tenths(9)>>,
     L  |-> <<Tenths(3), Tenths(8)>>,
     M  |-> <<Tenths(5), Tenths(7)>>,
     H  |-> <<Tenths(7), Tenths(5)>>,
     VH |-> <<Tenths(9), Tenths(3)>>]

-----------------------------------------------------------------------------
(* fahp_weights *)

\* fahp_weights without the total == 0 fallback: always divides
fahp_weights_no_fallback(pfs_matrix) ==
    LET n == Len(pfs_matrix)
        S == List([i \in 1..n |-> List([j \in 1..n |-> pfs_matrix[i][j].mu])])
        g == List([i \in 1..n |-> Root(ProdTo(S[i], n), n)])
        total == Sum(g)
    IN  IF total = 0
        THEN [raised |-> "ZeroDivisionError"]
        ELSE [raised |-> "", weights |-> [i \in 1..n |-> (g[i] * WScale) \div total]]

\* fahp_weights dividing by n instead of by the sum of the geometric means
fahp_weights_div_n(pfs_matrix) ==
    LET n == Len(pfs_matrix)
        S == List([i \in 1..n |-> List([j \in 1..n |-> pfs_matrix[i][j].mu])])
        g == List([i \in 1..n |-> Root(ProdTo(S[i], n), n)])
        total == Sum(g)
    IN  IF total = 0
        THEN [raised |-> "", weights |-> [i \in 1..n |-> WScale \div n]]
        ELSE [raised |-> "", weights |-> [i \in 1..n |-> (g[i] * WScale) \div (n * Unit)]]

\* fahp_weights reading the nu component where it should read mu
fahp_weights_from_nu(pfs_matrix) ==
    LET n == Len(pfs_matrix)
        S == List([i \in 1..n |-> List([j \in 1..n |-> pfs_matrix[i][j].nu])])
        g == List([i \in 1..n |-> Root(ProdTo(S[i], n), n)])
        total == Sum(g)
    IN  IF total = 0
        THEN [raised |-> "", weights |-> [i \in 1..n |-> WScale \div n]]
        ELSE [raised |-> "", weights |-> [i \in 1..n |-> (g[i] * WScale) \div total]]

\* fahp_weights(pfs_matrix): row geometric means of mu, normalised.
\* g[i] is prod ** (1.0 / n) in units 1/Unit: prod counts 1/Unit^n.
fahp_weights(pfs_matrix) ==
    LET n == Len(pfs_matrix)
        S == List([i \in 1..n |-> List([j \in 1..n |-> pfs_matrix[i][j].mu])])
        g == List([i \in 1..n |-> Root(ProdTo(S[i], n), n)])
        total == Sum(g)
    IN  IF total = 0
        THEN [raised |-> "", weights |-> [i \in 1..n |-> WScale \div n]]
        ELSE [raised |-> "", weights |-> [i \in 1..n |-> (g[i] * WScale) \div total]]

-----------------------------------------------------------------------------
(* ftopsis *)

\* S: the score matrix (line 125)
ftopsis_S(pfs_matrix) ==
    List([i \in 1..Len(pfs_matrix) |->
        List([j \in 1..Len(pfs_matrix[1]) |-> score(pfs_matrix[i][j])])])

\* denom of column j (lines 130-132); 1.0 is One in the unit of the scores
ftopsis_denom(S, j) ==
    LET d == sqrt(Sum(List([i \in 1..Len(S) |-> S[i][j] * S[i][j]])))
    IN  IF d = 0 THEN One ELSE d

\* R: the vector-normalised scores (lines 128-138)
ftopsis_R(S) ==
    LET denom == List([j \in 1..Len(S[1]) |-> ftopsis_denom(S, j)])
    IN  List([i \in 1..Len(S) |->
            List([j \in 1..Len(S[1]) |-> (S[i][j] * RScale) \div denom[j]])])

\* V: the weighted normalised matrix (line 141); needs Len(weights) >= n
ftopsis_V(pfs_matrix, weights) ==
    LET R == ftopsis_R(ftopsis_S(pfs_matrix))
    IN  List([i \in 1..Len(R) |->
            List([j \in 1..Len(R[1]) |-> R[i][j] * weights[j]])])

\* a positive ideal that takes one maximum over the whole matrix
v_plus_global(V) ==
    List([j \in 1..Len(V[1]) |->
        Max({V[i][k] : i \in 1..Len(V), k \in 1..Len(V[1])})])

v_plus(V) == List([j \in 1..Len(V[1]) |-> Max({V[i][j] : i \in 1..Len(V)})])

v_minus(V) == List([j \in 1..Len(V[1]) |-> Min({V[i][j] : i \in 1..Len(V)})])

\* Euclidean distance of row i of V to the reference vector ref (lines 150-151)
Dist(V, i, ref) ==
    sqrt(Sum(List([j \in 1..Len(ref) |-> (V[i][j] - ref[j]) * (V[i][j] - ref[j])])))

\* the closeness coefficient without the zero-denominator fallback
closeness_no_fallback(dp, dm) ==
    IF dp + dm # 0 THEN (dm * CScale) \div (dp + dm) ELSE CScale

\* CC of one alternative (lines 155-158)
closeness(dp, dm) ==
    IF dp + dm # 0 THEN (dm * CScale) \div (dp + dm) ELSE 0

\* The DataFrame before sort_values (lines 121-164), or what is raised:
\* pfs_matrix[0] and weights[j] raise IndexError, pd.DataFrame raises
\* ValueError when its columns differ in length.
ftopsis_frame(pfs_matrix, weights, alternatives) ==
    IF Len(pfs_matrix) = 0 THEN [raised |-> "IndexError"]
    ELSE IF Len(weights) < Len(pfs_matrix[1]) THEN [raised |-> "IndexError"]
    ELSE IF Len(alternatives) # Len(pfs_matrix) THEN [raised |-> "ValueError"]
    ELSE LET V  == ftopsis_V(pfs_matrix, weights)
             vp == v_plus(V)
             vm == v_minus(V)
         IN  [raised |-> "",
              rows |-> List([i \in 1..Len(V) |->
                 LET dp == Dist(V, i, vp)
                     dm == Dist(V, i, vm)
                 IN  [Alternative |-> alternatives[i],
                      D_plus |-> dp, D_minus |-> dm,
                      CC |-> closeness(dp, dm)]])]

Perms(m) == {p \in [1..m -> 1..m] : \A a, b \in 1..m : a # b => p[a] # p[b]}

PermsDim == Perms(Dim)

PermsOf(m) == IF m = Dim THEN PermsDim ELSE Perms(m)

\* sort_values(by="CC", ascending=False) with the default kind="quicksort":
\* the rows come out in CC-descending order; quicksort is not a stable sort,
\* so the order among rows of equal CC is whichever the build produces.
sorted_orders(rows) ==
    {p \in PermsOf(Len(rows)) :
        \A a \in 1..(Len(rows) - 1) : rows[p[a]].CC >= rows[p[a + 1]].CC}

\* ftopsis(pfs_matrix, weights, alternatives): the set of possible returns.
\* order[k] is the input position of the row placed k-th (the index before
\* reset_index(drop=True) discards it); df is the returned table.
ftopsis(pfs_matrix, weights, alternatives) ==
    LET f == ftopsis_frame(pfs_matrix, weights, alternatives)
    IN  IF f.raised # "" THEN {f}
        ELSE {[raised |-> "",
               order |-> p,
               df |-> List([k \in 1..Len(f.rows) |-> f.rows[p[k]]])] :
                  p \in sorted_orders(f.rows)}

-----------------------------------------------------------------------------
(* The App after __init__ (lines 290-346, 568-632) *)

None == [set |-> FALSE]

Experts == 1..experts

Cells == 1..Dim

AppInit ==
    /\ fahp_frames = [e \in Experts |-> [i \in Cells |-> [j \in Cells |-> "EQ"]]]
    /\ ftopsis_frames = [e \in Experts |-> [i \in Cells |-> [j \in Cells |-> "M"]]]
    /\ last_result = None
    /\ files = <<>>
    /\ outcome = [op |-> "init"]
    /\ steps = 0

NoCall == [op |-> "none"]

\* a direct call of a core function: no App is constructed
NoApp ==
    /\ fahp_frames = <<>>
    /\ ftopsis_frames = <<>>
    /\ last_result = None
    /\ files = <<>>
    /\ outcome = [op |-> "none"]
    /\ steps = 0

Pending == [state |-> "pending"]

-----------------------------------------------------------------------------
(* Direct calls of PFS: every (mu, nu) of a grid around the unit square *)

PfsMax == 48

PfsGrid == (0 - PfsMax)..PfsMax

InitPFS ==
    /\ NoApp
    /\ call \in {[op |-> "PFS", mu |-> m, nu |-> n] : m \in PfsGrid, n \in PfsGrid}
    /\ ret = Pending

\* p = PFS(mu, nu)
Construct ==
    /\ call.op = "PFS"
    /\ ret.state = "pending"
    /\ LET p == PFS(call.mu, call.nu)
       IN  ret' = IF p.raised # ""
                  THEN [state |-> "raised", raised |-> p.raised]
                  ELSE [state |-> "constructed", obj |-> p]
    /\ UNCHANGED <<appvars, call>>

\* p.score()
Score ==
    /\ call.op = "PFS"
    /\ ret.state = "constructed"
    /\ ret' = [state |-> "scored", obj |-> ret.obj, score |-> score(ret.obj)]
    /\ UNCHANGED <<appvars, call>>

NextPFS == Construct \/ Score

SpecPFS == InitPFS /\ [][NextPFS]_vars

InUnitInterval(x) == 0 <= x /\ x <= Unit

\* C1: constructing (mu, nu) fails whenever mu^2 + nu^2 > 1 (+1e-9) and
\* succeeds for every (mu, nu) in [0,1]x[0,1] with mu^2 + nu^2 <= 1; for a
\* constructed value score() is mu^2 - nu^2 and lies in [-1, 1].
C1_PfsConstraintAndScore ==
    call.op = "PFS" /\ ret.state # "pending" =>
        /\ call.mu * call.mu + call.nu * call.nu > One => ret.state = "raised"
        /\ (/\ InUnitInterval(call.mu) /\ InUnitInterval(call.nu)
            /\ call.mu * call.mu + call.nu * call.nu <= One)
              => /\ ret.state \in {"constructed", "scored"}
                 /\ ret.obj.mu = call.mu /\ ret.obj.nu = call.nu
        /\ ret.state = "scored" =>
              /\ ret.score = call.mu * call.mu - call.nu * call.nu
              /\ 0 - One <= ret.score /\ ret.score <= One

\* a value on the boundary mu^2 + nu^2 = 1 (0.6, 0.8) constructed and scored
C1_Witness ==
    /\ call.op = "PFS" /\ ret.state = "scored"
    /\ call.mu = Tenths(6) /\ call.nu = Tenths(8)
    /\ ret.score = Tenths(6) * Tenths(6) - Tenths(8) * Tenths(8)

\* C2: constructing a value fails if either component is outside [0,1], even
\* when mu^2 + nu^2 <= 1: no value with a component outside [0,1] is ever
\* constructed.
C2_ComponentBoundsEnforced ==
    call.op = "PFS" /\ ret.state \in {"constructed", "scored"} =>
        InUnitInterval(ret.obj.mu) /\ InUnitInterval(ret.obj.nu)

-----------------------------------------------------------------------------
(* Direct calls of fahp_weights: every square matrix up to MaxN over a few *)
(* valid fuzzy values, among them one with mu = 0 and two that differ only *)
(* in nu.                                                                  *)

MaxN == 2

FahpCells ==
    {[raised |-> "", mu |-> 0, nu |-> Tenths(5)],
     [raised |-> "", mu |-> Tenths(3), nu |-> Tenths(8)],
     [raised |-> "", mu |-> Tenths(7), nu |-> Tenths(7)],
     [raised |-> "", mu |-> Tenths(7), nu |-> Tenths(5)]}

Matrices(m, n, cells) == [1..m -> [1..n -> cells]]

InitFahp ==
    /\ NoApp
    /\ \E n \in 1..MaxN :
          call \in {[op |-> "fahp_weights", pfs_matrix |-> M] :
                       M \in Matrices(n, n, FahpCells)}
    /\ ret = Pending

\* weights = fahp_weights(pfs_matrix)
CallFahpWeights ==
    /\ call.op = "fahp_weights"
    /\ ret.state = "pending"
    /\ LET r == fahp_weights(call.pfs_matrix)
       IN  ret' = IF r.raised # ""
                  THEN [state |-> "raised", raised |-> r.raised]
                  ELSE [state |-> "returned", weights |-> r.weights]
    /\ UNCHANGED <<appvars, call>>

NextFahp == CallFahpWeights

SpecFahp == InitFahp /\ [][NextFahp]_vars

RowHasZero(M, i) == \E j \in 1..Len(M[i]) : M[i][j].mu = 0

\* C4: for a valid square consensus matrix of size N >= 1 the returned
\* vector has length N, no negative entry, and sums to 1 within tolerance
\* (here: less than one unit of 1/WScale per entry), in the normalised and
\* in the uniform branch alike.
C4_WeightsNormalised ==
    call.op = "fahp_weights" /\ ret.state # "pending" =>
        /\ ret.state = "returned"
        /\ Len(ret.weights) = Len(call.pfs_matrix)
        /\ \A i \in 1..Len(ret.weights) : ret.weights[i] >= 0
        /\ Sum(ret.weights) <= WScale
        /\ Sum(ret.weights) > WScale - Len(call.pfs_matrix)

\* the normalised branch on a matrix of the largest size with unequal rows
C4_Witness ==
    /\ call.op = "fahp_weights" /\ ret.state = "returned"
    /\ Len(call.pfs_matrix) = MaxN
    /\ \A i \in 1..MaxN : ~RowHasZero(call.pfs_matrix, i)
    /\ \E i, j \in 1..MaxN : ret.weights[i] > ret.weights[j]
    /\ Sum(ret.weights) > WScale - MaxN /\ Sum(ret.weights) <= WScale

\* C5: when every row of the matrix has a zero row product (in particular
\* when every mu is 0) the result is the uniform vector 1/N and nothing is
\* raised.
C5_UniformFallback ==
    (/\ call.op = "fahp_weights" /\ ret.state # "pending"
     /\ \A i \in 1..Len(call.pfs_matrix) : RowHasZero(call.pfs_matrix, i))
       => /\ ret.state = "returned"
          /\ Len(ret.weights) = Len(call.pfs_matrix)
          /\ \A i \in 1..Len(ret.weights) :
                ret.weights[i] = WScale \div Len(call.pfs_matrix)

\* the all-zero matrix of the largest size, answered
C5_Witness ==
    /\ call.op = "fahp_weights" /\ ret.state = "returned"
    /\ Len(call.pfs_matrix) = MaxN
    /\ \A i, j \in 1..MaxN : call.pfs_matrix[i][j].mu = 0
    /\ \A i \in 1..MaxN : ret.weights[i] = WScale \div MaxN

-----------------------------------------------------------------------------
(* Direct calls of ftopsis: every matrix of up to MaxAlt alternatives,     *)
(* MaxCrit criteria and MaxCells cells over three valid fuzzy values       *)
(* (score negative, zero, positive), with weights and labels of the        *)
(* matching length, and with one of them too short or too long.            *)

MaxAlt == 3

MaxCrit == 2

MaxCells == 6

TopsisCells ==
    {[raised |-> "", mu |-> Tenths(3), nu |-> Tenths(8)],
     [raised |-> "", mu |-> Tenths(7), nu |-> Tenths(7)],
     [raised |-> "", mu |-> Tenths(9), nu |-> Tenths(3)]}

AltNames == [k \in 1..(MaxAlt + 1) |-> "B" \o ToString(k)]

Labels(k) == [i \in 1..k |-> AltNames[i]]

\* weight vectors of length k: equal, all zero, first heavy, first zero
WeightVectors(k) ==
    {[j \in 1..k |-> 30], [j \in 1..k |-> 0],
     [j \in 1..k |-> IF j = 1 THEN 70 ELSE 30],
     [j \in 1..k |-> IF j = 1 THEN 0 ELSE 70]}

\* the weight vectors and label sequences tried with an m x n matrix
FtopsisArgs(m, n) ==
    {<<w, Labels(m)>> : w \in WeightVectors(n)}
    \cup {<<[j \in 1..k |-> 30], Labels(m)>> : k \in {n - 1, n + 1}}
    \cup {<<[j \in 1..n |-> 30], Labels(k)>> : k \in {m - 1, m + 1}}

InitFtopsis ==
    /\ NoApp
    /\ \E m \in 1..MaxAlt, n \in 1..MaxCrit :
          /\ m * n <= MaxCells
          /\ call \in {[op |-> "ftopsis", pfs_matrix |-> M,
                        weights |-> a[1], alternatives |-> a[2]] :
                          M \in Matrices(m, n, TopsisCells), a \in FtopsisArgs(m, n)}
    /\ ret = Pending

\* df = ftopsis(pfs_matrix, weights, alternatives)
CallFtopsis ==
    /\ call.op = "ftopsis"
    /\ ret.state = "pending"
    /\ \E r \in ftopsis(call.pfs_matrix, call.weights, call.alternatives) :
          ret' = IF r.raised # ""
                 THEN [state |-> "raised", raised |-> r.raised]
                 ELSE [state |-> "returned", order |-> r.order, df |-> r.df]
    /\ UNCHANGED <<appvars, call>>

NextFtopsis == CallFtopsis

SpecFtopsis == InitFtopsis /\ [][NextFtopsis]_vars

Answered == call.op = "ftopsis" /\ ret.state = "returned"

ShapesMatch ==
    /\ Len(call.weights) = Len(call.pfs_matrix[1])
    /\ Len(call.alternatives) = Len(call.pfs_matrix)

\* C6: the ranking has exactly one row per input alternative, CC
\* non-increasing, and alternatives of equal CC in their input order.
C6_StableRanking ==
    Answered =>
        /\ Len(ret.df) = Len(call.alternatives)
        /\ \A a, b \in 1..Len(ret.df) : a # b => ret.order[a] # ret.order[b]
        /\ \A k \in 1..Len(ret.df) :
              ret.df[k].Alternative = call.alternatives[ret.order[k]]
        /\ \A a, b \in 1..Len(ret.df) :
              a < b => /\ ret.df[a].CC >= ret.df[b].CC
                       /\ ret.df[a].CC = ret.df[b].CC => ret.order[a] < ret.order[b]

RowsIdentical(V) == \A i \in 1..Len(V) : V[i] = V[1]

\* C7: CC_i = D-_i / (D+_i + D-_i) when the denominator is non-zero and 0
\* otherwise; the fallback is taken only when all weighted rows V are
\* identical (M = 1 included), and then every D+, D- and CC is 0.
C7_ClosenessAndFallback ==
    Answered =>
        LET V == ftopsis_V(call.pfs_matrix, call.weights)
        IN  /\ \A k \in 1..Len(ret.df) :
                  LET r == ret.df[k]
                  IN  /\ r.D_plus + r.D_minus # 0 =>
                            r.CC = (r.D_minus * CScale) \div (r.D_plus + r.D_minus)
                      /\ r.D_plus + r.D_minus = 0 => r.CC = 0 /\ RowsIdentical(V)
            /\ RowsIdentical(V) =>
                  \A k \in 1..Len(ret.df) :
                      /\ ret.df[k].D_plus = 0 /\ ret.df[k].D_minus = 0
                      /\ ret.df[k].CC = 0

\* two alternatives with the same weighted row, unequal fuzzy values, answered
C7_Witness ==
    /\ Answered
    /\ Len(call.pfs_matrix) = MaxAlt
    /\ RowsIdentical(ftopsis_V(call.pfs_matrix, call.weights))
    /\ \E j \in 1..Len(call.pfs_matrix[1]) : score(call.pfs_matrix[1][j]) # 0
    /\ \A k \in 1..Len(ret.df) : ret.df[k].CC = 0

\* C8: a weight vector or a label sequence whose length does not match the
\* matrix makes the call fail; no result is returned.
C8_ShapeMismatchRejected ==
    call.op = "ftopsis" /\ ret.state # "pending" /\ ~ShapesMatch
        => ret.state = "raised"

-----------------------------------------------------------------------------
(* class ScenarioManager.  A file or scenario name is a sequence of text   *)
(* pieces; the piece ".json" is the extension.  files maps the names of    *)
(* the files in data_dir to their parsed content.                          *)

Ext == ".json"

\* os.path.join(self.data_dir, f"{scenario_name}.json")
path_of(scenario_name) == scenario_name \o <<Ext>>

\* result_df.to_dict(): column -> {index -> value}
to_dict(df) ==
    [Alternative |-> [k \in 1..Len(df) |-> df[k].Alternative],
     D_plus |-> [k \in 1..Len(df) |-> df[k].D_plus],
     D_minus |-> [k \in 1..Len(df) |-> df[k].D_minus],
     CC |-> [k \in 1..Len(df) |-> df[k].CC]]

\* ScenarioManager.save_scenario: the directory after the write
save_scenario(dir, scenario_name, fahp_data, ftopsis_data, weights, result_df) ==
    LET data == [name |-> scenario_name,
                 fahp_ling |-> fahp_data,
                 ftopsis_ling |-> ftopsis_data,
                 weights |-> weights,
                 results |-> to_dict(result_df)]
        path == path_of(scenario_name)
    IN  [f \in DOMAIN dir \cup {path} |-> IF f = path THEN data ELSE dir[f]]

\* ScenarioManager.load_scenario: None when the file does not exist
load_scenario(dir, scenario_name) ==
    IF path_of(scenario_name) \notin DOMAIN dir THEN None
    ELSE [set |-> TRUE, data |-> dir[path_of(scenario_name)]]

endswith_json(f) == Len(f) > 0 /\ f[Len(f)] = Ext

\* f.replace(".json", ""): every occurrence is removed
replace_json(f) == SelectSeq(f, LAMBDA t : t # Ext)

\* ScenarioManager.list_scenarios, as a set (the caller indexes the sorted list)
list_scenarios(dir) == {replace_json(f) : f \in {g \in DOMAIN dir : endswith_json(g)}}

-----------------------------------------------------------------------------
(* App.compute *)

criteria == [k \in 1..Dim |-> "A" \o ToString(k)]

alternatives == [k \in 1..Dim |-> "B" \o ToString(k)]

\* lines 641-654: the FAHP labels read from the widgets, diagonal "EQ"
read_fahp_ling(frames) ==
    List([e \in Experts |-> List([i \in Cells |-> List([j \in Cells |->
        IF i = j THEN "EQ" ELSE frames[e][i][j]])])])

\* lines 684-694: the FTOPSIS labels read from the widgets
read_ftopsis_ling(frames) ==
    List([e \in Experts |-> List([i \in Cells |-> List([j \in Cells |->
        frames[e][i][j]])])])

\* a lookup that answers an unknown label with the middle value of the scale
lookup_with_default(SCALE, label) ==
    IF label \in DOMAIN SCALE
    THEN PFS(SCALE[label][1], SCALE[label][2])
    ELSE PFS(Tenths(5), Tenths(7))

\* SCALE[label]: KeyError when the label is not a key of the table
lookup(SCALE, label) ==
    IF label \in DOMAIN SCALE
    THEN PFS(SCALE[label][1], SCALE[label][2])
    ELSE [raised |-> "KeyError"]

\* lines 656-666 and 696-706: labels -> PFS, expert by expert
to_pfs_experts(SCALE, ling_experts) ==
    List([e \in Experts |-> List([i \in Cells |-> List([j \in Cells |->
        lookup(SCALE, ling_experts[e][i][j])])])])

\* the first exception raised in a grid of results, "" when none
FirstRaised(grids) ==
    LET raisedAt == {<<e, i, j>> \in Experts \X Cells \X Cells :
                        grids[e][i][j].raised # ""}
    IN  IF raisedAt = {} THEN ""
        ELSE LET first == CHOOSE p \in raisedAt : \A q \in raisedAt :
                            \/ p[1] < q[1]
                            \/ p[1] = q[1] /\ p[2] < q[2]
                            \/ p[1] = q[1] /\ p[2] = q[2] /\ p[3] <= q[3]
             IN  grids[first[1]][first[2]][first[3]].raised

\* an aggregation that keeps the first expert's value instead of the mean
aggregate_first_expert(pfs_experts) ==
    List([i \in Cells |-> List([j \in Cells |->
        PFS(pfs_experts[1][i][j].mu, pfs_experts[1][i][j].nu)])])

\* lines 668-676 and 708-716: the mean of mu and of nu over the experts,
\* built through PFS(...)
aggregate(pfs_experts) ==
    List([i \in Cells |-> List([j \in Cells |->
        LET mu_avg == Sum(List([e \in Experts |-> pfs_experts[e][i][j].mu])) \div experts
            nu_avg == Sum(List([e \in Experts |-> pfs_experts[e][i][j].nu])) \div experts
        IN  PFS(mu_avg, nu_avg)])])

MatrixRaised(M) ==
    IF \E i \in Cells, j \in Cells : M[i][j].raised # "" THEN "ValueError" ELSE ""

\* compute (lines 637-735) up to the assignment of self.last_result: the
\* set of possible outcomes, each either raised or the values computed
compute_results(ff, tf) ==
    LET fahp_ling_experts == read_fahp_ling(ff)
        fahp_pfs_experts == to_pfs_experts(AHP_SCALE, fahp_ling_experts)
    IN  IF FirstRaised(fahp_pfs_experts) # ""
        THEN {[raised |-> FirstRaised(fahp_pfs_experts)]}
        ELSE
    LET pfs_fahp == aggregate(fahp_pfs_experts)
    IN  IF MatrixRaised(pfs_fahp) # "" THEN {[raised |-> MatrixRaised(pfs_fahp)]}
        ELSE
    LET weights == fahp_weights(pfs_fahp).weights
        ftopsis_ling_experts == read_ftopsis_ling(tf)
        ftopsis_pfs_experts == to_pfs_experts(TOPSIS_SCALE, ftopsis_ling_experts)
    IN  IF FirstRaised(ftopsis_pfs_experts) # ""
        THEN {[raised |-> FirstRaised(ftopsis_pfs_experts)]}
        ELSE
    LET pfs_top == aggregate(ftopsis_pfs_experts)
    IN  IF MatrixRaised(pfs_top) # "" THEN {[raised |-> MatrixRaised(pfs_top)]}
        ELSE
        {[raised |-> "",
          fahp_ling |-> fahp_ling_experts,
          ftopsis_ling |-> ftopsis_ling_experts,
          pfs_fahp |-> pfs_fahp,
          pfs_top |-> pfs_top,
          weights |-> weights,
          df |-> r.df] : r \in ftopsis(pfs_top, weights, alternatives)}

-----------------------------------------------------------------------------
(* App.restore_scenario_to_inputs.  The three nested loops visit the cells *)
(* in the order of LinIndex; reading a cell the stored grid lacks raises   *)
(* IndexError, which ends the handler in its error branch with the cells   *)
(* visited before it already written.                                      *)

Total == experts * Dim * Dim

LinIndex(e, i, j) == ((e - 1) * Dim + (i - 1)) * Dim + (j - 1)

Has(grid, e, i, j) ==
    /\ e <= Len(grid)
    /\ i <= Len(grid[e])
    /\ j <= Len(grid[e][i])

\* the index of the first cell whose read raises, Total when none does
FirstBad(grid) ==
    LET bad == {LinIndex(e, i, j) : <<e, i, j>> \in
                   {p \in Experts \X Cells \X Cells : ~Has(grid, p[1], p[2], p[3])}}
    IN  IF bad = {} THEN Total ELSE Min(bad)

\* a restore that writes the stored label into the diagonal cells as well
restore_writes_diagonal(data, ff, tf) ==
    LET fbad == FirstBad(data.fahp_ling)
        tbad == IF fbad = Total THEN FirstBad(data.ftopsis_ling) ELSE 0
    IN  [result |-> IF fbad = Total /\ tbad = Total THEN "restored" ELSE "error",
         fahp_frames |-> [e \in Experts |-> [i \in Cells |-> [j \in Cells |->
             IF LinIndex(e, i, j) < fbad
             THEN data.fahp_ling[e][i][j] ELSE ff[e][i][j]]]],
         ftopsis_frames |-> [e \in Experts |-> [i \in Cells |-> [j \in Cells |->
             IF LinIndex(e, i, j) < tbad
             THEN data.ftopsis_ling[e][i][j] ELSE tf[e][i][j]]]]]

\* restore_scenario_to_inputs(data) (lines 476-515): the widgets after it
\* and whether it ended with the success or the error message
restore_scenario_to_inputs(data, ff, tf) ==
    LET fbad == FirstBad(data.fahp_ling)
        tbad == IF fbad = Total THEN FirstBad(data.ftopsis_ling) ELSE 0
    IN  [result |-> IF fbad = Total /\ tbad = Total THEN "restored" ELSE "error",
         fahp_frames |-> [e \in Experts |-> [i \in Cells |-> [j \in Cells |->
             IF i # j /\ LinIndex(e, i, j) < fbad
             THEN data.fahp_ling[e][i][j] ELSE ff[e][i][j]]]],
         ftopsis_frames |-> [e \in Experts |-> [i \in Cells |-> [j \in Cells |->
             IF LinIndex(e, i, j) < tbad
             THEN data.ftopsis_ling[e][i][j] ELSE tf[e][i][j]]]]]

-----------------------------------------------------------------------------
(* The App: what the user and the file system do *)

MaxSteps == 4

\* the cells the user edits, and the labels chosen
FahpEdits == {<<1, 1, 2>>} \X {"EQ", "VHI"}

FtopsisEdits == ({<<1, 1, 1>>} \X {"M", "VH"}) \cup ({<<2, 2, 1>>} \X {"M", "VL"})

ScenarioNames == {<<"s1">>}

Grid(E, R, C, label) ==
    List([e \in 1..E |-> List([i \in 1..R |-> List([j \in 1..C |-> label])])])

SetCell(grid, e, i, j, label) ==
    [grid EXCEPT ![e] = [grid[e] EXCEPT ![i] = [grid[e][i] EXCEPT ![j] = label]]]

ForeignRecord(fahp_ling, ftopsis_ling) ==
    [name |-> <<"s1">>,
     fahp_ling |-> fahp_ling,
     ftopsis_ling |-> ftopsis_ling,
     weights |-> [k \in 1..Dim |-> WScale \div Dim],
     results |-> to_dict(<<>>)]

\* scenario files written by something other than this session: of the
\* expected shape (with a diagonal entry that is not EQ), with a label of
\* the other vocabulary, too small, and too large
ForeignRecords ==
    LET F == Grid(experts, Dim, Dim, "HI")
        T == Grid(experts, Dim, Dim, "H")
    IN  {ForeignRecord(SetCell(F, 1, 1, 1, "VHI"), T),
         ForeignRecord(SetCell(F, 1, 1, 2, "M"), T),
         ForeignRecord(F, SetCell(T, 1, 1, 1, "EQ")),
         ForeignRecord(Grid(experts - 1, Dim, Dim, "HI"), T),
         ForeignRecord(F, Grid(experts, Dim, Dim - 1, "H")),
         ForeignRecord(Grid(experts + 1, Dim, Dim, "HI"),
                       Grid(experts, Dim + 1, Dim + 1, "H"))}

Init ==
    /\ AppInit
    /\ call = NoCall
    /\ ret = Pending

\* the user picks another label in a FAHP combobox (off the diagonal)
EditFahp ==
    /\ steps < MaxSteps
    /\ \E ed \in FahpEdits :
          /\ ed[1][2] # ed[1][3]
          /\ ed[2] \in DOMAIN AHP_SCALE
          /\ fahp_frames[ed[1][1]][ed[1][2]][ed[1][3]] # ed[2]
          /\ fahp_frames' = SetCell(fahp_frames, ed[1][1], ed[1][2], ed[1][3], ed[2])
    /\ outcome' = [op |-> "edit"]
    /\ steps' = steps + 1
    /\ UNCHANGED <<ftopsis_frames, last_result, files, call, ret>>

\* the user picks another label in a FTOPSIS combobox
EditFtopsis ==
    /\ steps < MaxSteps
    /\ \E ed \in FtopsisEdits :
          /\ ed[2] \in DOMAIN TOPSIS_SCALE
          /\ ftopsis_frames[ed[1][1]][ed[1][2]][ed[1][3]] # ed[2]
          /\ ftopsis_frames' = SetCell(ftopsis_frames, ed[1][1], ed[1][2], ed[1][3], ed[2])
    /\ outcome' = [op |-> "edit"]
    /\ steps' = steps + 1
    /\ UNCHANGED <<fahp_frames, last_result, files, call, ret>>

\* HESAPLA: compute runs to the assignment of self.last_result (line 730)
ComputeOk ==
    /\ steps < MaxSteps
    /\ \E r \in compute_results(fahp_frames, ftopsis_frames) :
          /\ r.raised = ""
          /\ last_result' = [set |-> TRUE,
                             fahp_ling |-> r.fahp_ling,
                             ftopsis_ling |-> r.ftopsis_ling,
                             weights |-> r.weights,
                             df |-> r.df]
          /\ outcome' = [op |-> "compute", raised |-> "",
                         pfs_fahp |-> r.pfs_fahp, pfs_top |-> r.pfs_top]
    /\ steps' = steps + 1
    /\ UNCHANGED <<fahp_frames, ftopsis_frames, files, call, ret>>

\* HESAPLA: compute raises before line 730; Tk reports the exception
ComputeRaises ==
    /\ steps < MaxSteps
    /\ \E r \in compute_results(fahp_frames, ftopsis_frames) :
          /\ r.raised # ""
          /\ outcome' = [op |-> "compute", raised |-> r.raised]
    /\ steps' = steps + 1
    /\ UNCHANGED <<fahp_frames, ftopsis_frames, last_result, files, call, ret>>

\* Senaryo Kaydet with no result yet: the warning (lines 361-363)
SaveRefused ==
    /\ steps < MaxSteps
    /\ ~last_result.set
    /\ outcome' = [op |-> "save", result |-> "warning"]
    /\ steps' = steps + 1
    /\ UNCHANGED <<fahp_frames, ftopsis_frames, last_result, files, call, ret>>

\* a save that reads the label grids from the widgets at the time of the
\* save, next to the weights and ranking of the last compute
SaveScenario_reads_widgets ==
    /\ steps < MaxSteps
    /\ last_result.set
    /\ \E name \in ScenarioNames :
          /\ files' = save_scenario(files, name, read_fahp_ling(fahp_frames),
                                    read_ftopsis_ling(ftopsis_frames),
                                    last_result.weights, last_result.df)
          /\ outcome' = [op |-> "save", result |-> "saved", name |-> name]
    /\ steps' = steps + 1
    /\ UNCHANGED <<fahp_frames, ftopsis_frames, last_result, call, ret>>

\* Senaryo Kaydet, a name, Kaydet (lines 373-387)
SaveScenario ==
    /\ steps < MaxSteps
    /\ last_result.set
    /\ \E name \in ScenarioNames :
          /\ files' = save_scenario(files, name, last_result.fahp_ling,
                                    last_result.ftopsis_ling, last_result.weights,
                                    last_result.df)
          /\ outcome' = [op |-> "save", result |-> "saved", name |-> name]
    /\ steps' = steps + 1
    /\ UNCHANGED <<fahp_frames, ftopsis_frames, last_result, call, ret>>

\* a scenario file appears in data_dir from outside the session
ForeignFile ==
    /\ steps < MaxSteps
    /\ \E name \in ScenarioNames, data \in ForeignRecords :
          files' = [f \in DOMAIN files \cup {path_of(name)} |->
                       IF f = path_of(name) THEN data ELSE files[f]]
    /\ outcome' = [op |-> "foreign"]
    /\ steps' = steps + 1
    /\ UNCHANGED <<fahp_frames, ftopsis_frames, last_result, call, ret>>

\* Senaryo Yukle with no scenario listed: the notice (lines 393-396)
LoadNothing ==
    /\ steps < MaxSteps
    /\ list_scenarios(files) = {}
    /\ outcome' = [op |-> "load", result |-> "empty"]
    /\ steps' = steps + 1
    /\ UNCHANGED <<fahp_frames, ftopsis_frames, last_result, files, call, ret>>

\* Senaryo Yukle, a listed scenario, either button: both end in
\* restore_scenario_to_inputs(data) (lines 410-444)
LoadScenario ==
    /\ steps < MaxSteps
    /\ \E scenario_name \in list_scenarios(files) :
          LET loaded == load_scenario(files, scenario_name)
          IN  IF ~loaded.set
              THEN /\ outcome' = [op |-> "load", result |-> "TypeError",
                                  name |-> scenario_name]
                   /\ UNCHANGED <<fahp_frames, ftopsis_frames>>
              ELSE LET r == restore_scenario_to_inputs(loaded.data, fahp_frames,
                                                       ftopsis_frames)
                   IN  /\ fahp_frames' = r.fahp_frames
                       /\ ftopsis_frames' = r.ftopsis_frames
                       /\ outcome' = [op |-> "load", result |-> r.result,
                                      name |-> scenario_name, data |-> loaded.data]
    /\ steps' = steps + 1
    /\ UNCHANGED <<last_result, files, call, ret>>

Next ==
    \/ EditFahp
    \/ EditFtopsis
    \/ ComputeOk
    \/ ComputeRaises
    \/ SaveRefused
    \/ SaveScenario
    \/ ForeignFile
    \/ LoadNothing
    \/ LoadScenario

Spec == Init /\ [][Next]_vars

-----------------------------------------------------------------------------
(* Claims about the App *)

Computed == outcome.op = "compute" /\ outcome.raised = ""

SumOverExperts(SCALE, ling_experts, i, j, k) ==
    Sum([e \in Experts |-> SCALE[ling_experts[e][i][j]][k]])

Pythagorean(p) == p.mu * p.mu + p.nu * p.nu <= One

\* C3: every cell of the consensus matrix has mu equal to the arithmetic
\* mean of that cell's mu over all experts, and nu the mean of nu, every
\* expert counting once; every cell went through the validating
\* constructor, so it satisfies mu^2 + nu^2 <= 1.
C3_ConsensusIsMean ==
    Computed =>
        \A i \in Cells, j \in Cells :
            LET c == outcome.pfs_fahp[i][j]
                t == outcome.pfs_top[i][j]
            IN  /\ c.raised = "" /\ t.raised = ""
                /\ experts * c.mu = SumOverExperts(AHP_SCALE, last_result.fahp_ling, i, j, 1)
                /\ experts * c.nu = SumOverExperts(AHP_SCALE, last_result.fahp_ling, i, j, 2)
                /\ experts * t.mu = SumOverExperts(TOPSIS_SCALE, last_result.ftopsis_ling, i, j, 1)
                /\ experts * t.nu = SumOverExperts(TOPSIS_SCALE, last_result.ftopsis_ling, i, j, 2)
                /\ Pythagorean(c) /\ Pythagorean(t)

\* a compute in which the experts disagree on a FAHP cell and on a FTOPSIS cell
C3_Witness ==
    /\ Computed
    /\ last_result.fahp_ling[1][1][2] = "VHI" /\ last_result.fahp_ling[2][1][2] = "EQ"
    /\ experts * outcome.pfs_fahp[1][2].mu = Tenths(9) + (experts - 1) * Tenths(7)
    /\ last_result.ftopsis_ling[1][1][1] = "VH" /\ last_result.ftopsis_ling[2][1][1] = "M"
    /\ experts * outcome.pfs_top[1][1].nu = Tenths(3) + (experts - 1) * Tenths(7)

UnknownLabelShown ==
    \E e \in Experts, i \in Cells, j \in Cells :
        \/ i # j /\ fahp_frames[e][i][j] \notin DOMAIN AHP_SCALE
        \/ ftopsis_frames[e][i][j] \notin DOMAIN TOPSIS_SCALE

ComputeStep == steps' = steps + 1 /\ outcome'.op = "compute"

\* C9: a label outside the active vocabulary (a label of the other
\* vocabulary included) is never translated: a compute over inputs that
\* hold one ends in the lookup's KeyError, produces no result, and leaves
\* the stored last result as it was.
C9_UnknownLabelAborts ==
    [][UnknownLabelShown /\ ComputeStep =>
          /\ outcome'.raised = "KeyError"
          /\ last_result' = last_result]_vars

\* a compute that failed on an unknown label with an earlier result kept
C9_Witness ==
    /\ outcome.op = "compute" /\ outcome.raised = "KeyError"
    /\ UnknownLabelShown
    /\ last_result.set

DimsExpected(grid) ==
    /\ Len(grid) = experts
    /\ \A e \in 1..Len(grid) :
          /\ Len(grid[e]) = Dim
          /\ \A i \in 1..Len(grid[e]) : Len(grid[e][i]) = Dim

Restoring == outcome.op = "load" /\ outcome.result \in {"restored", "error"}

\* C10: restoring a record whose FAHP or FTOPSIS grid does not have the
\* expected dimensions (experts x Dim x Dim), too small or too large, is
\* rejected with an error.
C10_WrongDimensionsRejected ==
    (/\ Restoring
     /\ ~(DimsExpected(outcome.data.fahp_ling) /\ DimsExpected(outcome.data.ftopsis_ling)))
        => outcome.result = "error"

DiagonalEQ(grid) ==
    \A e \in 1..Len(grid) : \A i \in 1..Len(grid[e]) : grid[e][i][i] = "EQ"

\* C11: after any sequence of edits, restores (of records whose stored
\* diagonal is not EQ included) and computes, every diagonal cell of every
\* expert's FAHP matrix is EQ, in the inputs compute reads and in the
\* label grids stored in the last result.
C11_DiagonalIsEQ ==
    /\ DiagonalEQ(fahp_frames)
    /\ DiagonalEQ(read_fahp_ling(fahp_frames))
    /\ last_result.set => DiagonalEQ(last_result.fahp_ling)

\* a compute over inputs restored from a record whose diagonal holds VHI
C11_Witness ==
    /\ Computed
    /\ \E f \in DOMAIN files : files[f].fahp_ling[1][1][1] = "VHI"
    /\ last_result.fahp_ling[1][1][2] = "HI"
    /\ last_result.fahp_ling[1][1][1] = "EQ"

-----------------------------------------------------------------------------
(* expert_agreement_analysis (lines 234-258).  The variances are kept as   *)
(* exact fractions num/den of the squared unit; round(x, 4) is the nearest *)
(* multiple of 1/CScale, halves to even.                                   *)

\* round(num/den, 4) in 1/CScale, for 0 <= num and 0 < den
Round4(num, den) ==
    LET r  == num % den
        t1 == 100 * r
        t2 == 100 * (t1 % den)
        fl == (num \div den) * CScale + 100 * (t1 \div den) + (t2 \div den)
        r2 == t2 % den
    IN  IF 2 * r2 > den \/ (2 * r2 = den /\ fl % 2 = 1) THEN fl + 1 ELSE fl

\* Len(values)^2 * sum((x - avg)**2 for x in values), avg = sum(values)/Len(values)
SquaredDeviations(values) ==
    LET E == Len(values)
        S == Sum(values)
    IN  Sum(List([e \in 1..E |-> (E * values[e] - S) * (E * values[e] - S)]))

AgreementShapeOk(pfs_experts) ==
    \A e \in 1..Len(pfs_experts) :
        /\ Len(pfs_experts[e]) >= Len(pfs_experts[1])
        /\ \A i \in 1..Len(pfs_experts[1]) :
              Len(pfs_experts[e][i]) >= Len(pfs_experts[1][1])

\* the report built at lines 253-258 from avg_variance = num/den
agreement_report(num, den) ==
    [raised |-> "",
     avg_variance |-> Round4(num, den),
     score |-> Round4(den - Min({num, den}), den),
     level |-> IF 10 * num < den THEN "Yuksek"
               ELSE IF 5 * num < den THEN "Orta" ELSE "Dusuk"]

\* an analysis that takes the mean of the squares for the variance
agreement_raw_moment(pfs_experts) ==
    IF Len(pfs_experts) = 0 \/ Len(pfs_experts[1]) = 0
    THEN [raised |-> "", avg_variance |-> 0, score |-> CScale, level |-> "Yuksek"]
    ELSE LET E == Len(pfs_experts)
             n == Len(pfs_experts[1])
             m == Len(pfs_experts[1][1])
             sq(i, j) == Sum(List([e \in 1..E |->
                            pfs_experts[e][i][j].mu * pfs_experts[e][i][j].mu
                            + pfs_experts[e][i][j].nu * pfs_experts[e][i][j].nu]))
         IN  IF m = 0 THEN agreement_report(0, 1)
             ELSE agreement_report(
                    Sum(List([c \in 1..(n * m) |->
                        sq(((c - 1) \div m) + 1, ((c - 1) % m) + 1)])),
                    E * n * m * One)

expert_agreement_analysis(pfs_experts) ==
    IF Len(pfs_experts) = 0 \/ Len(pfs_experts[1]) = 0
    THEN [raised |-> "", avg_variance |-> 0, score |-> CScale, level |-> "Yuksek"]
    ELSE IF ~AgreementShapeOk(pfs_experts) THEN [raised |-> "IndexError"]
    ELSE LET E == Len(pfs_experts)
             n == Len(pfs_experts[1])
             m == Len(pfs_experts[1][1])
             \* E^3 * var of cell (i, j), in squared units
             var(i, j) ==
                 SquaredDeviations(List([e \in 1..E |-> pfs_experts[e][i][j].mu]))
                 + SquaredDeviations(List([e \in 1..E |-> pfs_experts[e][i][j].nu]))
         IN  IF m = 0 THEN agreement_report(0, 1)
             ELSE agreement_report(
                    Sum(List([c \in 1..(n * m) |->
                        var(((c - 1) \div m) + 1, ((c - 1) % m) + 1)])),
                    E * E * E * n * m * One)

-----------------------------------------------------------------------------
(* expert_agreement_analysis called on bounded inputs *)

\* at most this many cells in all the experts' matrices together
MaxAgreeCells == 8

AgreeCells == {PFS(0, 0), PFS(14, 21), PFS(18, 18)}

\* the inputs of at most c cells, the two empty ones included
AgreementInputsUpTo(c) ==
    {<<>>, << <<>> >>} \cup
    UNION {[1..t[1] -> Matrices(t[2], t[3], AgreeCells)] :
              t \in {u \in (1..c) \X (1..c) \X (1..c) : u[1] * u[2] * u[3] <= c}}

AgreementInputs == AgreementInputsUpTo(MaxAgreeCells)

InitAgreement ==
    /\ NoApp
    /\ \E pe \in AgreementInputs : call = [op |-> "agreement", pfs_experts |-> pe]
    /\ ret = Pending

CallAgreement ==
    /\ call.op = "agreement"
    /\ ret = Pending
    /\ ret' = [state |-> "returned",
               value |-> expert_agreement_analysis(call.pfs_experts)]
    /\ UNCHANGED <<appvars, call>>

NextAgreement == CallAgreement

SpecAgreement == InitAgreement /\ [][NextAgreement]_vars

AgreementReturned ==
    call.op = "agreement" /\ ret.state = "returned" /\ ret.value.raised = ""

\* C12: on one expert's non-empty matrix the analysis returns average
\* variance 0 and the highest agreement level, whatever the cells hold.
C12_SingleExpertAgrees ==
    (/\ AgreementReturned
     /\ Len(call.pfs_experts) = 1
     /\ Len(call.pfs_experts[1]) >= 1)
        => /\ ret.value.avg_variance = 0
           /\ ret.value.score = CScale
           /\ ret.value.level = "Yuksek"

\* one expert, a matrix with a cell of mu, nu > 0
C12_Witness ==
    /\ AgreementReturned
    /\ Len(call.pfs_experts) = 1
    /\ Len(call.pfs_experts[1]) = 2
    /\ call.pfs_experts[1][1][1].mu > 0
    /\ ret.value.avg_variance = 0

\* C13: in every report the level agrees with the reported (rounded)
\* average variance: Yuksek exactly when it is below 0.1, Orta exactly
\* when it is in [0.1, 0.2), Dusuk otherwise.
C13_LevelMatchesReportedVariance ==
    AgreementReturned =>
        /\ ret.value.level = "Yuksek" <=> ret.value.avg_variance < CScale \div 10
        /\ ret.value.level = "Orta" <=> /\ ret.value.avg_variance >= CScale \div 10
                                        /\ ret.value.avg_variance < CScale \div 5
        /\ ret.value.level = "Dusuk" <=> ret.value.avg_variance >= CScale \div 5

-----------------------------------------------------------------------------
(* statistical_summary (lines 213-227).  CC values are in 1/CScale and the *)
(* weights in 1/WScale; the exact sums below stay within 32 bits for up to *)
(* five rows of CC values between 0.2 and 0.8.                             *)

CCValues(result_df) == List([i \in 1..Len(result_df) |-> result_df[i].CC])

\* sum((M*x - S)^2) over the M values x of sum S: M^3 times their
\* variance with divisor M
ScaledVariance(values) == SquaredDeviations(values)

\* a summary whose standard deviation divides by M - 1 (ddof = 1)
statistical_summary_ddof1(weights, result_df) ==
    LET cc == CCValues(result_df)
        M  == Len(cc)
    IN  IF M = 0 THEN [raised |-> "ValueError"]
        ELSE IF Len(weights) = 0 THEN [raised |-> "ZeroDivisionError"]
        ELSE [raised |-> "",
              mean_cc |-> Sum(cc) \div M,
              std_cc |-> IF M = 1 THEN 0
                         ELSE sqrt(ScaledVariance(cc) \div (M * M * (M - 1))),
              min_cc |-> Min({cc[i] : i \in 1..M}),
              max_cc |-> Max({cc[i] : i \in 1..M}),
              range_cc |-> Max({cc[i] : i \in 1..M}) - Min({cc[i] : i \in 1..M}),
              mean_w |-> Sum(weights) \div Len(weights),
              max_w |-> Max({weights[k] : k \in 1..Len(weights)}),
              min_w |-> Min({weights[k] : k \in 1..Len(weights)})]

statistical_summary(weights, result_df) ==
    LET cc == CCValues(result_df)
        M  == Len(cc)
    IN  IF M = 0 THEN [raised |-> "ValueError"]
        ELSE IF Len(weights) = 0 THEN [raised |-> "ZeroDivisionError"]
        ELSE [raised |-> "",
              mean_cc |-> Sum(cc) \div M,
              std_cc |-> sqrt(ScaledVariance(cc) \div (M * M * M)),
              min_cc |-> Min({cc[i] : i \in 1..M}),
              max_cc |-> Max({cc[i] : i \in 1..M}),
              range_cc |-> Max({cc[i] : i \in 1..M}) - Min({cc[i] : i \in 1..M}),
              mean_w |-> Sum(weights) \div Len(weights),
              max_w |-> Max({weights[k] : k \in 1..Len(weights)}),
              min_w |-> Min({weights[k] : k \in 1..Len(weights)})]

-----------------------------------------------------------------------------
(* statistical_summary called on bounded inputs *)

MaxSummaryRows == 4

SummaryCC == {2000, 4000, 5000, 6000, 8000}

\* the result tables of at most r rows
SummaryFramesUpTo(r) ==
    UNION {{List([i \in 1..M |-> [Alternative |-> "B" \o ToString(i), CC |-> cc[i]]]) :
               cc \in [1..M -> SummaryCC]} : M \in 1..r}

SummaryFrames == SummaryFramesUpTo(MaxSummaryRows)

InitSummary ==
    /\ NoApp
    /\ \E df \in SummaryFrames, w \in {<<100>>, <<70, 30>>} :
          call = [op |-> "summary", weights |-> w, result_df |-> df]
    /\ ret = Pending

\* a summary that sorts cc_values in place: .values is a view of the
\* caller's table, whose CC column comes back in ascending order
CallSummary_sorts_in_place ==
    /\ call.op = "summary"
    /\ ret = Pending
    /\ ret' = [state |-> "returned",
               value |-> statistical_summary(call.weights, call.result_df)]
    /\ LET df == call.result_df
           p == CHOOSE q \in Perms(Len(df)) :
                   \A a, b \in 1..Len(df) :
                       a < b => \/ df[q[a]].CC < df[q[b]].CC
                                \/ df[q[a]].CC = df[q[b]].CC /\ q[a] < q[b]
       IN  call' = [call EXCEPT !.result_df =
                       List([i \in 1..Len(df) |-> [df[i] EXCEPT !.CC = df[p[i]].CC]])]
    /\ UNCHANGED appvars

CallSummary ==
    /\ call.op = "summary"
    /\ ret = Pending
    /\ ret' = [state |-> "returned",
               value |-> statistical_summary(call.weights, call.result_df)]
    /\ UNCHANGED <<appvars, call>>

NextSummary == CallSummary

SpecSummary == InitSummary /\ [][NextSummary]_vars

SummaryReturned ==
    call.op = "summary" /\ ret.state = "returned" /\ ret.value.raised = ""

\* C14: the summary holds the population statistics of the CC column:
\* mean = sum/M, standard deviation with divisor M, min, max and
\* range = max - min; CC = [0.2, 0.4, 0.6, 0.8] gives mean 0.5 and
\* standard deviation 0.2236 (variance 0.05).
C14_PopulationStatistics ==
    SummaryReturned =>
        LET cc == CCValues(call.result_df)
            M  == Len(cc)
            s  == ret.value
            devs == Sum(List([i \in 1..M |-> (M * cc[i] - Sum(cc)) * (M * cc[i] - Sum(cc))]))
        IN  /\ M * s.mean_cc <= Sum(cc) /\ Sum(cc) < M * (s.mean_cc + 1)
            /\ M * M * M * s.std_cc * s.std_cc <= devs
            /\ devs < M * M * M * (s.std_cc + 1) * (s.std_cc + 1)
            /\ \A i \in 1..M : s.min_cc <= cc[i] /\ cc[i] <= s.max_cc
            /\ \E i \in 1..M : cc[i] = s.min_cc
            /\ \E i \in 1..M : cc[i] = s.max_cc
            /\ s.range_cc = s.max_cc - s.min_cc
            /\ cc = <<2000, 4000, 6000, 8000>> =>
                  /\ s.mean_cc = CScale \div 2
                  /\ s.std_cc = 2236
                  /\ devs = M * M * M * ((CScale * CScale) \div 20)

\* the summary of CC = [0.2, 0.4, 0.6, 0.8]
C14_Witness ==
    /\ SummaryReturned
    /\ CCValues(call.result_df) = <<2000, 4000, 6000, 8000>>
    /\ ret.value.std_cc = 2236

-----------------------------------------------------------------------------
(* Claims about fahp_weights and ftopsis as functions of their arguments *)

\* the matrix with every nu set to the same value
WithNu(pfs_matrix, nu) ==
    List([i \in 1..Len(pfs_matrix) |-> List([j \in 1..Len(pfs_matrix[i]) |->
        [pfs_matrix[i][j] EXCEPT !.nu = nu]])])

FahpReturned == call.op = "fahp_weights" /\ ret.state = "returned"

\* C15: the weights depend on the mu components only: the weights of a
\* matrix are those of the matrix with the same mu and every nu replaced
\* by 0, so two matrices that agree on every mu and differ in nu get
\* identical weight vectors.
C15_WeightsIgnoreNu ==
    FahpReturned =>
        fahp_weights(WithNu(call.pfs_matrix, 0)).weights = ret.weights

\* a matrix holding two cells of equal mu and different nu, with weights
\* that are not uniform
C15_Witness ==
    /\ FahpReturned
    /\ Len(call.pfs_matrix) = 2
    /\ call.pfs_matrix[1][1].mu = call.pfs_matrix[2][2].mu
    /\ call.pfs_matrix[1][1].nu # call.pfs_matrix[2][2].nu
    /\ ret.weights[1] # ret.weights[2]

RemoveAt(seq, j) == SubSeq(seq, 1, j - 1) \o SubSeq(seq, j + 1, Len(seq))

RemoveColumn(pfs_matrix, j) ==
    List([i \in 1..Len(pfs_matrix) |-> RemoveAt(pfs_matrix[i], j)])

ZeroColumn(pfs_matrix, j) ==
    \A i \in 1..Len(pfs_matrix) : score(pfs_matrix[i][j]) = 0

\* C16: a criterion column whose scores are all 0 is normalised with
\* denominator 1, its normalised and weighted entries are 0 for every
\* alternative, and the call returns; the call without that column (and
\* without its weight) gives every alternative the same D+, D- and CC.
C16_ZeroColumnIsNeutral ==
    Answered =>
        \A j \in 1..Len(call.pfs_matrix[1]) :
            ZeroColumn(call.pfs_matrix, j) =>
                LET S == ftopsis_S(call.pfs_matrix)
                    R == ftopsis_R(S)
                    V == ftopsis_V(call.pfs_matrix, call.weights)
                    without == ftopsis_frame(RemoveColumn(call.pfs_matrix, j),
                                             RemoveAt(call.weights, j),
                                             call.alternatives)
                IN  /\ ftopsis_denom(S, j) = One
                    /\ \A i \in 1..Len(V) : R[i][j] = 0 /\ V[i][j] = 0
                    /\ without.raised = ""
                    /\ \A k \in 1..Len(ret.df) :
                          without.rows[ret.order[k]] = ret.df[k]

\* two criteria, the first with all scores 0 and a positive weight, the
\* second telling the alternatives apart
C16_Witness ==
    /\ Answered
    /\ Len(call.pfs_matrix[1]) = 2
    /\ ZeroColumn(call.pfs_matrix, 1)
    /\ call.weights[1] > 0
    /\ \E k \in 1..Len(ret.df) : ret.df[k].D_plus > 0

-----------------------------------------------------------------------------
(* The four core functions called on their callers' objects: call holds    *)
(* the arguments as the caller sees them, before and after the call.       *)

\* at most this many cells in the arguments of one call
MaxCoreCells == 4

InitCore ==
    /\ NoApp
    /\ ret = Pending
    /\ \/ \E n \in 1..MaxN :
             /\ n * n <= MaxCoreCells
             /\ call \in {[op |-> "fahp_weights", pfs_matrix |-> M] :
                             M \in Matrices(n, n, FahpCells)}
       \/ \E m \in 1..MaxAlt, n \in 1..MaxCrit :
             /\ m * n <= MaxCoreCells
             /\ call \in {[op |-> "ftopsis", pfs_matrix |-> M,
                           weights |-> a[1], alternatives |-> a[2]] :
                             M \in Matrices(m, n, TopsisCells), a \in FtopsisArgs(m, n)}
       \/ \E pe \in AgreementInputsUpTo(MaxCoreCells) :
             call = [op |-> "agreement", pfs_experts |-> pe]
       \/ \E df \in SummaryFramesUpTo(MaxCoreCells), w \in {<<100>>, <<70, 30>>} :
             call = [op |-> "summary", weights |-> w, result_df |-> df]

NextCore ==
    \/ CallFahpWeights
    \/ CallFtopsis
    \/ CallAgreement
    \/ CallSummary

SpecCore == InitCore /\ [][NextCore]_vars

-----------------------------------------------------------------------------
(* Claims about saving and loading scenarios *)

Saved == outcome.op = "save" /\ outcome.result = "saved"

\* the records in data_dir that this session wrote
SessionRecords == {files[f] : f \in DOMAIN files} \ ForeignRecords

\* the weights and ranking of the record are a result of computing from
\* the label grids of the same record
ComputedFromOwnGrids(rec) ==
    \E r \in compute_results(rec.fahp_ling, rec.ftopsis_ling) :
        /\ r.raised = ""
        /\ r.weights = rec.weights
        /\ to_dict(r.df) = rec.results

\* C18: a scenario is saved only after a compute has completed, and the
\* weights and ranking of every saved record are the ones computed from
\* the label grids stored in that record, which are the inputs as the last
\* completed compute read them, whatever edits, restores or failed
\* computes came between that compute and the save.
C18_SavedRecordIsConsistent ==
    /\ SessionRecords # {} => last_result.set
    /\ Saved =>
          LET rec == files[path_of(outcome.name)]
          IN  /\ last_result.set
              /\ rec \in SessionRecords
              /\ ComputedFromOwnGrids(rec)
              /\ rec.fahp_ling = last_result.fahp_ling
              /\ rec.ftopsis_ling = last_result.ftopsis_ling
              /\ rec.weights = last_result.weights
              /\ rec.results = to_dict(last_result.df)

\* a save made after the inputs were edited away from what the last
\* compute read
C18_Witness ==
    /\ Saved
    /\ read_ftopsis_ling(ftopsis_frames) # last_result.ftopsis_ling
    /\ files[path_of(outcome.name)].ftopsis_ling = last_result.ftopsis_ling

-----------------------------------------------------------------------------
(* ScenarioManager called on a directory: files is data_dir, call and ret  *)
(* the last call and its return, outcome the record most recently passed   *)
(* to save_scenario under each name.                                       *)

MaxManagerSteps == 4

\* scenario names as typed: plain ones and one that holds the text ".json"
ManagerNames == {<<"a">>, <<"b">>, <<"a", ".json">>}

\* label grids told apart by one label
ManagerGrids == {<<"EQ">>, <<"HI">>}

InitScenarios ==
    /\ fahp_frames = <<>>
    /\ ftopsis_frames = <<>>
    /\ last_result = None
    /\ files = <<>>
    /\ outcome = <<>>
    /\ steps = 0
    /\ call = NoCall
    /\ ret = Pending

\* manager.save_scenario(name, ...)
CallSaveScenario ==
    /\ steps < MaxManagerSteps
    /\ \E name \in ManagerNames, grid \in ManagerGrids :
          /\ files' = save_scenario(files, name, grid, <<>>, <<>>, <<>>)
          /\ outcome' = [n \in DOMAIN outcome \cup {name} |->
                            IF n = name THEN files'[path_of(name)] ELSE outcome[n]]
          /\ call' = [op |-> "save_scenario", scenario_name |-> name]
          /\ ret' = [state |-> "returned", value |-> path_of(name)]
    /\ steps' = steps + 1
    /\ UNCHANGED <<fahp_frames, ftopsis_frames, last_result>>

\* manager.load_scenario(name) for a name that manager.list_scenarios()
\* returns (lines 393-399, 410-418)
CallLoadListed ==
    /\ steps < MaxManagerSteps
    /\ \E name \in list_scenarios(files) :
          /\ call' = [op |-> "load_scenario", scenario_name |-> name]
          /\ ret' = [state |-> "returned", value |-> load_scenario(files, name)]
    /\ steps' = steps + 1
    /\ UNCHANGED <<fahp_frames, ftopsis_frames, last_result, files, outcome>>

NextScenarios == CallSaveScenario \/ CallLoadListed

SpecScenarios == InitScenarios /\ [][NextScenarios]_vars

\* C19: after any sequence of saves, loading a name that list_scenarios
\* returns gives a record, never None, and it is the record most recently
\* saved under that name; also for names that hold the text ".json".
C19_ListedNamesLoad ==
    (call.op = "load_scenario" /\ ret.state = "returned") =>
        /\ ret.value.set
        /\ call.scenario_name \in DOMAIN outcome
        /\ ret.value.data = outcome[call.scenario_name]

RestoreStep ==
    /\ steps' = steps + 1
    /\ outcome'.op = "load"
    /\ outcome'.result \in {"restored", "error"}

\* C20: restore_scenario_to_inputs is all-or-nothing: when it ends in the
\* error outcome no input cell differs from its value before the call;
\* when it ends in the success outcome every editable cell of every expert
\* holds the label stored at the same position of the record.
C20_RestoreAllOrNothing ==
    [][RestoreStep =>
          /\ outcome'.result = "error" =>
                /\ fahp_frames' = fahp_frames
                /\ ftopsis_frames' = ftopsis_frames
          /\ outcome'.result = "restored" =>
                \A e \in Experts, i \in Cells, j \in Cells :
                    /\ i # j => fahp_frames'[e][i][j] = outcome'.data.fahp_ling[e][i][j]
                    /\ ftopsis_frames'[e][i][j] = outcome'.data.ftopsis_ling[e][i][j]]_vars

-----------------------------------------------------------------------------
(* Dominance in ftopsis *)

\* the place of input row a in the returned ranking
PlaceOf(a) == CHOOSE k \in 1..Len(ret.df) : ret.order[k] = a

\* the returned row of input row a
RowOf(a) == ret.df[PlaceOf(a)]

\* a's score is at least b's in every criterion
Dominates(a, b) ==
    \A j \in 1..Len(call.pfs_matrix[1]) :
        score(call.pfs_matrix[a][j]) >= score(call.pfs_matrix[b][j])

\* the distances and closeness of a dominating row are at least as good
DominanceInNumbers ==
    \A a, b \in 1..Len(call.pfs_matrix) :
        Dominates(a, b) =>
            /\ RowOf(a).D_plus <= RowOf(b).D_plus
            /\ RowOf(a).D_minus >= RowOf(b).D_minus
            /\ RowOf(a).CC >= RowOf(b).CC

\* C21: with non-negative weights, an alternative a whose score is at least
\* b's in every criterion has D+_a <= D+_b, D-_a >= D-_b and CC_a >= CC_b,
\* and is placed after b in the ranking only when their CC are equal and b
\* precedes a in the input; every CC lies in [0, 1].
C21_RankRespectsDominance ==
    (Answered /\ \A j \in 1..Len(call.weights) : call.weights[j] >= 0) =>
        /\ DominanceInNumbers
        /\ \A a, b \in 1..Len(call.pfs_matrix) :
              (Dominates(a, b) /\ PlaceOf(a) > PlaceOf(b)) =>
                  RowOf(a).CC = RowOf(b).CC /\ b < a
        /\ \A k \in 1..Len(ret.df) : 0 <= ret.df[k].CC /\ ret.df[k].CC <= CScale

====
